---- MODULE Spec2Model ----
(***************************************************************************)
(* Model of the franka_analytical_ik Python package                        *)
(* (src/franka_analytical_ik/__init__.py): the import of the package, and  *)
(* calls of its two entry points SolveIK and SolveIKCC by caller threads.  *)
(*                                                                         *)
(* Numbers.  The code computes in float64.  The model keeps every length   *)
(* as an integer count of 1e-4 m, so that the tool offset 0.1034 m is the  *)
(* integer 1034, and every angle as an integer count of degrees.  A 4x4    *)
(* homogeneous matrix keeps its rotation block and bottom row unscaled and *)
(* its translation column in 1e-4 m; X @ X_EE_offset is then exactly the   *)
(* integer matrix product with X_EE_offset[2,3] = 1034.                    *)
(*                                                                         *)
(* The compiled extension _franka_ik (the analytical solver and its        *)
(* binding) is not among the source files.  Its definitions below are      *)
(* modelled from the design document (spec.md sections 3, 4, 6, 7) and are *)
(* a discrete stand-in for the trigonometry, not the solver's formulas.    *)
(***************************************************************************)
EXTENDS Integers, Sequences, FiniteSets, TLC

VARIABLES ipc, ns, star, th, frame

vars == <<ipc, ns, star, th, frame>>

(***************************************************************************)
(* Bounds of the model.                                                    *)
(***************************************************************************)
NumThreads == 2
MaxGrid == 2
MaxRed == 2

Threads == 1..NumThreads

(***************************************************************************)
(* numpy arrays: a shape and the elements in C (row-major) order, which is *)
(* numpy's default layout.  Ranks 1, 2 and 3 occur in the model.           *)
(***************************************************************************)
RECURSIVE Prod(_)
Prod(s) == IF s = <<>> THEN 1 ELSE Head(s) * Prod(Tail(s))

Arr(shape, data) == [shape |-> shape, data |-> data]

Zeros(shape) == Arr(shape, [i \in 1..Prod(shape) |-> 0])

\* A rank-2 array seen as a stack of one matrix, a rank-3 array as it is.
Dim3(A) == IF Len(A.shape) = 2 THEN <<1>> \o A.shape ELSE A.shape

\* Element [i, j, k] (0-based) of an array of rank 2 or 3, in C order.
At3(A, i, j, k) == A.data[i * Dim3(A)[2] * Dim3(A)[3] + j * Dim3(A)[3] + k + 1]

\* Element [r, c] (0-based) of a rank-2 array.
At(A, r, c) == At3(A, 0, r, c)

(***************************************************************************)
(* numpy operations used by the two entry points.                          *)
(***************************************************************************)
RECURSIVE SumTo(_, _)
SumTo(f, n) == IF n = 0 THEN 0 ELSE f[n] + SumTo(f, n - 1)

\* A @ B for A of rank 2 or 3 and B of rank 2: the product over A's last two
\* axes, one matrix of the stack at a time.  Defined when A's last axis has
\* the length of B's first (MatMulDefined); numpy raises ValueError otherwise.
MatMulDefined(A, B) == Len(A.shape) \in {2, 3} /\ Dim3(A)[3] = B.shape[1]

MatMul(A, B) ==
    LET d == Dim3(A)
        K == B.shape[2]
        shape == SubSeq(A.shape, 1, Len(A.shape) - 1) \o <<K>>
        elem(n) == LET i == n \div (d[2] * K)
                       j == (n \div K) % d[2]
                       k == n % K
                   IN  SumTo([m \in 1..d[3] |-> At3(A, i, j, m - 1) * At(B, m - 1, k)], d[3])
    IN  Arr(shape, [n \in 1..Prod(shape) |-> elem(n - 1)])

\* A.flatten() in numpy's default C order: the flatten without its 'F'.
FlattenC(A) == Arr(<<Prod(A.shape)>>, A.data)

\* A.flatten('F'): the elements in column-major order, the first index
\* running fastest.
FlattenF(A) ==
    LET d == Dim3(A)
        elem(n) == At3(A, n % d[1], (n \div d[1]) % d[2], n \div (d[1] * d[2]))
    IN  Arr(<<Prod(A.shape)>>, [n \in 1..Prod(A.shape) |-> elem(n - 1)])

\* np.eye(4)
Eye4 == Arr(<<4, 4>>, [n \in 1..16 |-> IF (n - 1) \div 4 = (n - 1) % 4 THEN 1 ELSE 0])

\* A[r, c] = x on a rank-2 array.
SetItem(A, r, c, x) == Arr(A.shape, [A.data EXCEPT ![r * A.shape[2] + c + 1] = x])

\* The hand offset 0.1034 m along the tool z axis, in 1e-4 m.
ToolOffset == 1034

(***************************************************************************)
(* The extension module _franka_ik, modelled from the design document.     *)
(*                                                                         *)
(* Kinematic model (section 4.1): two arm links between the shoulder       *)
(* reference point (the base frame's origin) and the wrist reference point *)
(* (the translation of the pose the solver is given), and symmetric joint  *)
(* limits in degrees.  The document gives no values; these are the         *)
(* model's.                                                                *)
(***************************************************************************)
UpperArm == 3160
ForeArm == 3840
MaxReach == UpperArm + ForeArm
MinReach == ForeArm - UpperArm
JointMax == <<166, 101, 166, 176, 166, 215, 166>>
JointMin == [i \in 1..7 |-> 0 - JointMax[i]]

\* Not-a-number, and the invalid sentinel (section 3, Solution).  Every
\* ordered comparison with not-a-number is false.
NaN == 99999
IsNaN(x) == x = NaN
Sentinel == [i \in 1..7 |-> NaN]
Less(a, b) == ~IsNaN(a) /\ ~IsNaN(b) /\ a < b
LessEq(a, b) == ~IsNaN(a) /\ ~IsNaN(b) /\ a <= b

Abs(a) == IF a < 0 THEN 0 - a ELSE a

\* An angle brought into [-180, 180).
Wrap(a) == ((a + 180) % 360) - 180

\* Two-argument arctangent on the signs of its arguments, in steps of 45
\* degrees (section 4.2, numeric policy).
Atan2Deg(y, x) ==
    CASE y = 0 /\ x >= 0 -> 0
      [] y > 0 /\ x > 0  -> 45
      [] y > 0 /\ x = 0  -> 90
      [] y > 0 /\ x < 0  -> 135
      [] y = 0 /\ x < 0  -> 180
      [] y < 0 /\ x < 0  -> 0 - 135
      [] y < 0 /\ x = 0  -> 0 - 90
      [] y < 0 /\ x > 0  -> 0 - 45

\* The flat pose is column-major: element [r, c] is v[4*c + r + 1].
PoseAt(v, r, c) == v[4 * c + r + 1]
Translation(v) == <<PoseAt(v, 0, 3), PoseAt(v, 1, 3), PoseAt(v, 2, 3)>>
Dist2(p) == p[1] * p[1] + p[2] * p[2] + p[3] * p[3]

\* Section 4.2: the shoulder-wrist distance must lie in [min-reach,
\* max-reach]; otherwise the pose is Unreachable.
Reachable(v) ==
    /\ MinReach * MinReach <= Dist2(Translation(v))
    /\ Dist2(Translation(v)) <= MaxReach * MaxReach

\* Section 4.2: the elbow angle by the law of cosines.  The cosine is linear
\* in the squared distance; the inverse cosine is taken piecewise linear:
\* 0 at full extension (max-reach), 180 fully folded (min-reach).
ElbowAngle(v) ==
    (180 * ((MaxReach * MaxReach - Dist2(Translation(v))) \div 1000))
        \div ((MaxReach * MaxReach - MinReach * MinReach) \div 1000)

\* Section 3: the redundancy parameter is taken modulo a full turn.
Redundancy(q) == q % 360

\* Section 3, Case: a shoulder-branch bit and an elbow-branch bit, derived
\* from a configuration by sign tests on its shoulder and elbow joints.
CaseOf(q) == <<IF Less(q[2], 0) THEN 0 - 1 ELSE 1, IF Less(q[4], 0) THEN 0 - 1 ELSE 1>>

\* Section 4.5: the fixed order of the four cases.
Cases == << <<0 - 1, 0 - 1>>, <<0 - 1, 1>>, <<1, 0 - 1>>, <<1, 1>> >>

\* Sections 4.2 and 4.3: the raw joint vector of one case.
Candidate(v, q, c) ==
    LET p == Translation(v)
        R == Redundancy(q)
        elbow == ElbowAngle(v)
        zenith == Atan2Deg(Abs(p[1]) + Abs(p[2]), p[3])
        q1 == Wrap(Atan2Deg(p[2], p[1]) + (IF c[1] < 0 THEN 180 ELSE 0))
        q2 == c[1] * Abs(Wrap(zenith - (elbow \div 2) + R))
        q3 == Wrap(R)
        q4 == c[2] * elbow
        q5 == Wrap(Atan2Deg(PoseAt(v, 1, 0), PoseAt(v, 0, 0)) - q1)
        q6 == c[2] * Atan2Deg(Abs(PoseAt(v, 0, 2)) + Abs(PoseAt(v, 1, 2)), PoseAt(v, 2, 2))
        q7 == Wrap(R - q5)
    IN  <<q1, q2, q3, q4, q5, q6, q7>>

\* Section 4.4: the joint-limit validator.
InLimits(q) == \A i \in 1..7 : LessEq(JointMin[i], q[i]) /\ LessEq(q[i], JointMax[i])

\* A validator that blanks only the joints out of bound.
ValidatePartial(q) ==
    [i \in 1..7 |-> IF LessEq(JointMin[i], q[i]) /\ LessEq(q[i], JointMax[i]) THEN q[i] ELSE NaN]
Validate(q) == IF InLimits(q) THEN q ELSE Sentinel

\* Section 4.3: one case's solution, or the sentinel: the pose must be
\* reachable, the candidate must lie on the branch it was built for (the
\* sign tests shared with CaseOf, section 9), and pass the validator.
CaseSolution(v, q, c) ==
    IF ~Reachable(v) THEN Sentinel
    ELSE IF CaseOf(Candidate(v, q, c)) # c THEN Sentinel
    ELSE Validate(Candidate(v, q, c))

\* Section 7: only malformed sizes are a hard failure, at the boundary.
SizesOk(flat, ref) == Prod(flat.shape) = 16 /\ Len(ref) = 7

Raised(e) == [raised |-> TRUE, err |-> e, val |-> <<>>]
Returned(x) == [raised |-> FALSE, err |-> "", val |-> x]

\* Section 4.5: _franka_ik.solve_ik.
solve_ik(flat, q, ref) ==
    IF ~SizesOk(flat, ref) THEN Raised("RuntimeError")
    ELSE Returned([i \in 1..4 |-> CaseSolution(flat.data, q, Cases[i])])

\* Section 4.6: _franka_ik.solve_ik_cc.  A reference outside the joint
\* limits is rejected with the sentinel.
solve_ik_cc(flat, q, ref) ==
    IF ~SizesOk(flat, ref) THEN Raised("RuntimeError")
    ELSE IF ~InLimits(ref) THEN Returned(Sentinel)
    ELSE Returned(CaseSolution(flat.data, q, CaseOf(ref)))

(***************************************************************************)
(* The package's code: src/franka_analytical_ik/__init__.py.               *)
(***************************************************************************)
\* Line 17.
ExportList == <<"solve_ik", "solve_ik_cc">>

\* The names the module body binds once the extension is imported: lines 14,
\* 16, 17, 19 and 56.  Lines 95 and 96 are comments and bind nothing.
ModuleBodyNames == {"np", "__version__", "__all__", "SolveIK", "SolveIKCC"}

\* Lines 45-46 and 83-84: the error the two assert statements end in, or "".
\* shape[1] of an array of rank below 2 raises IndexError.
\* The second assert with 3 written for 4.
SolveIK_CheckTypo(X) ==
    IF Len(X.shape) < 2 THEN "IndexError"
    ELSE IF X.shape[1] # X.shape[2] THEN "AssertionError"
    ELSE IF X.shape[1] # 3 THEN "AssertionError"
    ELSE ""

SolveIK_Check(X) ==
    IF Len(X.shape) < 2 THEN "IndexError"
    ELSE IF X.shape[1] # X.shape[2] THEN "AssertionError"
    ELSE IF X.shape[1] # 4 THEN "AssertionError"
    ELSE ""

SolveIKCC_Check(X) ==
    IF Len(X.shape) < 2 THEN "IndexError"
    ELSE IF X.shape[1] # X.shape[2] THEN "AssertionError"
    ELSE IF X.shape[1] # 4 THEN "AssertionError"
    ELSE ""

\* Lines 49-50 and 87-88: X_EE_offset.
\* The offset left out: X_EE_offset stays the identity.
NoOffset == Eye4

SolveIK_Offset == SetItem(Eye4, 2, 3, ToolOffset)
SolveIKCC_Offset == SetItem(Eye4, 2, 3, ToolOffset)

\* Lines 47-52 and 85-90: the locals after the preprocessing statements, and
\* the caller's array, which no statement writes.
LocalsWith(X, off, internal) ==
    [err |-> "", X_W_EE |-> X, X_EE_offset |-> off,
     X_W_EE_internal |-> internal, O_T_EE_flat |-> FlattenF(internal)]

Locals(X, off) ==
    IF ~MatMulDefined(X, off)
    THEN [err |-> "ValueError", X_W_EE |-> X, X_EE_offset |-> off,
          X_W_EE_internal |-> X, O_T_EE_flat |-> Arr(<<0>>, <<>>)]
    ELSE LocalsWith(X, off, MatMul(X, off))

SolveIK_Pre(X) == Locals(X, SolveIK_Offset)
SolveIKCC_Pre(X) == Locals(X, SolveIKCC_Offset)

\* Lines 53 and 91: the arguments handed to the extension, and the callee.
SolveIK_Args(fr, q_redundancy, q_current) == <<fr.O_T_EE_flat, q_redundancy, q_current>>
SolveIKCC_Args(fr, q_redundancy, q_current) == <<fr.O_T_EE_flat, q_redundancy, q_current>>

\* Each entry point calling the other's solver, as a copied body would.
SolveIK_CoreCopied(args) == solve_ik_cc(args[1], args[2], args[3])
SolveIKCC_CoreCopied(args) == solve_ik(args[1], args[2], args[3])

SolveIK_Core(args) == solve_ik(args[1], args[2], args[3])
SolveIKCC_Core(args) == solve_ik_cc(args[1], args[2], args[3])

\* Lines 54 and 92: the value returned.
SolveIK_Result(solutions) == solutions
SolveIKCC_Result(solution) == solution

CheckOf(fn, X) == IF fn = "SolveIK" THEN SolveIK_Check(X) ELSE SolveIKCC_Check(X)
PreOf(fn, X) == IF fn = "SolveIK" THEN SolveIK_Pre(X) ELSE SolveIKCC_Pre(X)
ArgsOf(fn, fr, q, ref) ==
    IF fn = "SolveIK" THEN SolveIK_Args(fr, q, ref) ELSE SolveIKCC_Args(fr, q, ref)
CoreOf(fn, args) == IF fn = "SolveIK" THEN SolveIK_Core(args) ELSE SolveIKCC_Core(args)
ResultOf(fn, x) == IF fn = "SolveIK" THEN SolveIK_Result(x) ELSE SolveIKCC_Result(x)

\* The locals of a call live in the frame of that call: one frame per
\* calling thread.
\* The locals kept in one place for all calls, as module-level variables
\* would be.
FrameShared(t) == 1

Frame(t) == t

(***************************************************************************)
(* Inputs.                                                                 *)
(***************************************************************************)
\* A 4x4 homogeneous transform from the rows of a rotation and a translation.
Pose(R, t) ==
    Arr(<<4, 4>>, R[1] \o <<t[1]>> \o R[2] \o <<t[2]>> \o R[3] \o <<t[3]>> \o <<0, 0, 0, 1>>)

RotI == << <<1, 0, 0>>, <<0, 1, 0>>, <<0, 0, 1>> >>
RotX == << <<1, 0, 0>>, <<0, 0 - 1, 0>>, <<0, 0, 0 - 1>> >>
RotY == << <<0, 0, 1>>, <<0, 1, 0>>, <<0 - 1, 0, 0>> >>

Coords == {k * 3000 : k \in 0..MaxGrid}

\* Poses on a grid of 0.3 m, and the pose the offset brings to the origin.
Poses ==
    {Pose(R, <<x, y, z>>) :
        R \in {RotI, RotX, RotY}, x \in Coords, y \in {0, 3000}, z \in Coords}
    \cup {Pose(RotI, <<0, 0, 0 - ToolOffset>>)}

Malformed ==
    {Zeros(<<3, 3>>), Zeros(<<4>>), Zeros(<<4, 3>>), Zeros(<<4, 4, 4>>), Zeros(<<4, 4, 2>>)}

Redundancies == {k * 150 : k \in (0 - 1)..MaxRed}

Refs ==
    { <<0, 10, 0, 20, 0, 0, 0>>, <<0, 0 - 10, 0, 0 - 20, 0, 0, 0>>,
      <<0, 0 - 10, 0, 20, 0, 0, 0>>, <<0, 10, 0, 0 - 20, 0, 0, 0>>,
      <<0, 120, 0, 20, 0, 0, 0>>, <<0, 0, 0, 0, 0, 0>> }

SmallPoses == {Pose(RotI, <<3000, 0, 3000>>), Pose(RotX, <<3000, 0, 0>>), Zeros(<<3, 3>>)}
SmallRedundancies == {0}
SmallRefs == { <<0, 10, 0, 20, 0, 0, 0>> }

(***************************************************************************)
(* State.                                                                  *)
(*   ipc    where the import of the package stands                         *)
(*   ns     the names bound in the package's namespace                     *)
(*   star   the outcome of "from franka_analytical_ik import *"            *)
(*   th     per thread: the call it is in, its arguments and its outcome   *)
(*   frame  the local variables of the calls                               *)
(***************************************************************************)
NoArr == Arr(<<>>, <<>>)
NoFrame == [X_EE_offset |-> NoArr, X_W_EE_internal |-> NoArr, O_T_EE_flat |-> NoArr,
            solutions |-> <<>>]
NoCall(pc) == [pc |-> pc, fn |-> "", X |-> NoArr, X0 |-> NoArr, q |-> 0, ref |-> <<>>,
               passed |-> <<>>, outcome |-> "none", err |-> "", result |-> <<>>,
               coreRan |-> FALSE]
NewCall(fn, X, q, ref) ==
    [pc |-> "check", fn |-> fn, X |-> X, X0 |-> X, q |-> q, ref |-> ref,
     passed |-> <<>>, outcome |-> "none", err |-> "", result |-> <<>>, coreRan |-> FALSE]

Init ==
    /\ ipc = "start"
    /\ ns = {}
    /\ star = "none"
    /\ th = [t \in Threads |-> NoCall(IF t = 1 THEN "idle" ELSE "off")]
    /\ frame = [t \in Threads |-> NoFrame]

InitConc ==
    /\ ipc = "start"
    /\ ns = {}
    /\ star = "none"
    /\ th = [t \in Threads |-> NoCall("idle")]
    /\ frame = [t \in Threads |-> NoFrame]

(***************************************************************************)
(* Import of the package.                                                  *)
(***************************************************************************)
\* Line 9: from . import _franka_ik
ImportRelative ==
    /\ ipc = "start"
    /\ ipc' = "ext"
    /\ ns' = ns \cup {"_franka_ik"}
    /\ UNCHANGED <<star, th, frame>>

\* Lines 10-12: the relative import failed; import _franka_ik
ImportFallback ==
    /\ ipc = "start"
    /\ ipc' = "ext"
    /\ ns' = ns \cup {"_franka_ik"}
    /\ UNCHANGED <<star, th, frame>>

\* Lines 14-96: the rest of the module body.
ModuleBody ==
    /\ ipc = "ext"
    /\ ipc' = "done"
    /\ ns' = ns \cup ModuleBodyNames
    /\ UNCHANGED <<star, th, frame>>

\* from franka_analytical_ik import *: looks up every name of __all__ in
\* the package and raises AttributeError at the first that is not bound.
StarImport ==
    /\ ipc = "done"
    /\ star = "none"
    /\ star' = IF \A i \in 1..Len(ExportList) : ExportList[i] \in ns
               THEN "ok" ELSE "AttributeError"
    /\ UNCHANGED <<ipc, ns, th, frame>>

(***************************************************************************)
(* Calls of SolveIK and SolveIKCC.                                         *)
(***************************************************************************)
\* An exception leaves the call: its frame is gone.
Raise(t, e) ==
    /\ th' = [th EXCEPT ![t].pc = "done", ![t].outcome = "raised", ![t].err = e]
    /\ frame' = [frame EXCEPT ![Frame(t)] = NoFrame]

\* A call begins: the arguments are bound, the frame holds no local yet.
Begin(t, fn, X, q, ref) ==
    /\ ipc = "done"
    /\ th' = [th EXCEPT ![t] = NewCall(fn, X, q, ref)]
    /\ frame' = [frame EXCEPT ![Frame(t)] = NoFrame]
    /\ UNCHANGED <<ipc, ns, star>>

\* A caller calls one of the entry points.
StartCall(t) ==
    /\ th[t].pc = "idle"
    /\ \E fn \in {"SolveIK", "SolveIKCC"}, X \in Poses \cup Malformed,
       q \in Redundancies, ref \in Refs :
        Begin(t, fn, X, q, ref)

StartCallSmall(t) ==
    /\ th[t].pc = "idle"
    /\ \E fn \in {"SolveIK", "SolveIKCC"}, X \in SmallPoses,
       q \in SmallRedundancies, ref \in SmallRefs :
        Begin(t, fn, X, q, ref)

\* A caller hands one of SolveIK's solutions back to SolveIKCC as the
\* reference, with the same pose and redundancy parameter.
FeedBack(t) ==
    /\ th[t].pc = "done" /\ th[t].fn = "SolveIK" /\ th[t].outcome = "returned"
    /\ \E i \in 1..Len(th[t].result) :
        Begin(t, "SolveIKCC", th[t].X, th[t].q, th[t].result[i])

\* Lines 45-46, 83-84.
AssertShape(t) ==
    /\ th[t].pc = "check"
    /\ IF CheckOf(th[t].fn, th[t].X) # ""
       THEN Raise(t, CheckOf(th[t].fn, th[t].X))
       ELSE th' = [th EXCEPT ![t].pc = "prep"] /\ UNCHANGED frame
    /\ UNCHANGED <<ipc, ns, star>>

\* Lines 47-52, 85-90.
Preprocess(t) ==
    /\ th[t].pc = "prep"
    /\ \E pre \in {PreOf(th[t].fn, th[t].X)} :
        IF pre.err # ""
        THEN /\ th' = [th EXCEPT ![t].pc = "done", ![t].outcome = "raised",
                                 ![t].err = pre.err, ![t].X = pre.X_W_EE]
             /\ frame' = [frame EXCEPT ![Frame(t)] = NoFrame]
        ELSE /\ th' = [th EXCEPT ![t].pc = "call", ![t].X = pre.X_W_EE]
             /\ frame' = [frame EXCEPT ![Frame(t)].X_EE_offset = pre.X_EE_offset,
                                       ![Frame(t)].X_W_EE_internal = pre.X_W_EE_internal,
                                       ![Frame(t)].O_T_EE_flat = pre.O_T_EE_flat]
    /\ UNCHANGED <<ipc, ns, star>>

\* Lines 53, 91.
CallCore(t) ==
    /\ th[t].pc = "call"
    /\ \E args \in {ArgsOf(th[t].fn, frame[Frame(t)], th[t].q, th[t].ref)} :
       \E r \in {CoreOf(th[t].fn, args)} :
           IF r.raised
           THEN /\ th' = [th EXCEPT ![t].pc = "done", ![t].outcome = "raised",
                                    ![t].err = r.err, ![t].passed = args]
                /\ frame' = [frame EXCEPT ![Frame(t)] = NoFrame]
           ELSE /\ th' = [th EXCEPT ![t].pc = "ret", ![t].passed = args,
                                    ![t].coreRan = TRUE]
                /\ frame' = [frame EXCEPT ![Frame(t)].solutions = r.val]
    /\ UNCHANGED <<ipc, ns, star>>

\* Lines 54, 92: the value is returned and the call's frame is gone.
Return(t) ==
    /\ th[t].pc = "ret"
    /\ th' = [th EXCEPT ![t].pc = "done", ![t].outcome = "returned",
                        ![t].result = ResultOf(th[t].fn, frame[Frame(t)].solutions)]
    /\ frame' = [frame EXCEPT ![Frame(t)] = NoFrame]
    /\ UNCHANGED <<ipc, ns, star>>

\* The caller drops the outcome of a finished call.
Finish(t) ==
    /\ th[t].pc = "done"
    /\ th' = [th EXCEPT ![t] = NoCall("idle")]
    /\ UNCHANGED <<ipc, ns, star, frame>>

Next ==
    \/ ImportRelative
    \/ ImportFallback
    \/ ModuleBody
    \/ StarImport
    \/ \E t \in Threads : StartCall(t)
    \/ \E t \in Threads : FeedBack(t)
    \/ \E t \in Threads : AssertShape(t)
    \/ \E t \in Threads : Preprocess(t)
    \/ \E t \in Threads : CallCore(t)
    \/ \E t \in Threads : Return(t)
    \/ \E t \in Threads : Finish(t)

NextConc ==
    \/ ImportRelative
    \/ ImportFallback
    \/ ModuleBody
    \/ StarImport
    \/ \E t \in Threads : StartCallSmall(t)
    \/ \E t \in Threads : AssertShape(t)
    \/ \E t \in Threads : Preprocess(t)
    \/ \E t \in Threads : CallCore(t)
    \/ \E t \in Threads : Return(t)
    \/ \E t \in Threads : Finish(t)

Spec == Init /\ [][Next]_vars

SpecConc == InitConc /\ [][NextConc]_vars

(***************************************************************************)
(* What the claims below speak of.                                         *)
(***************************************************************************)
Done(t) == th[t].pc = "done"
Ret(t) == Done(t) /\ th[t].outcome = "returned"
WellSized(t) == th[t].X0.shape = <<4, 4>> /\ Len(th[t].ref) = 7
AllNaN(q) == Len(q) = 7 /\ \A i \in 1..7 : IsNaN(q[i])
Valid(q) == Len(q) = 7 /\ InLimits(q)

\* Element [r, c] of X @ X_EE_offset in closed form: X's rotation block as it
\* is, X's translation plus 0.1034 times X's third column.
ExpectedPose(X, r, c) ==
    IF c < 3 THEN At(X, r, c) ELSE At(X, r, 3) + ToolOffset * At(X, r, 2)
ExpectedTranslation(X) ==
    <<ExpectedPose(X, 0, 3), ExpectedPose(X, 1, 3), ExpectedPose(X, 2, 3)>>

\* What SolveIK returns for a well-sized call, its statements run in order.
IKOutputs(X, q, ref) ==
    SolveIK_Result(SolveIK_Core(SolveIK_Args(SolveIK_Pre(X), q, ref)).val)

\* The outcome of a call as a function of its own arguments, its statements
\* run in order with nothing in between.
AfterCore(fn, r) ==
    IF r.raised THEN <<"raised", r.err, <<>>>> ELSE <<"returned", "", ResultOf(fn, r.val)>>
AfterPre(fn, pre, q, ref) ==
    IF pre.err # "" THEN <<"raised", pre.err, <<>>>>
    ELSE AfterCore(fn, CoreOf(fn, ArgsOf(fn, pre, q, ref)))
CallOutcome(fn, X, q, ref) ==
    IF CheckOf(fn, X) # "" THEN <<"raised", CheckOf(fn, X), <<>>>>
    ELSE AfterPre(fn, PreOf(fn, X), q, ref)

(***************************************************************************)
(* C1.  Every SolveIK call that returns gives exactly four entries, also   *)
(* when cases are unreachable; entry i is the invalid sentinel or a valid  *)
(* 7-tuple whose sign tests give case i of the fixed order.                *)
(***************************************************************************)
C1_FourEntriesInCaseOrder ==
    \A t \in Threads :
        (Ret(t) /\ th[t].fn = "SolveIK") =>
            /\ Len(th[t].result) = 4
            /\ \A i \in 1..4 :
                \/ th[t].result[i] = Sentinel
                \/ Valid(th[t].result[i]) /\ CaseOf(th[t].result[i]) = Cases[i]

\* A returned SolveIK call with a valid entry beside a sentinel entry.
C1_Witness ==
    \E t \in Threads :
        /\ Ret(t) /\ th[t].fn = "SolveIK"
        /\ \E i, j \in 1..4 : Valid(th[t].result[i]) /\ th[t].result[j] = Sentinel

(***************************************************************************)
(* C2.  Every 7-tuple either entry point returns is all not-a-number, or   *)
(* has no not-a-number and every joint inside its limits.                  *)
(***************************************************************************)
Tuples(t) ==
    IF th[t].fn = "SolveIK"
    THEN {th[t].result[i] : i \in 1..Len(th[t].result)}
    ELSE {th[t].result}

C2_AllOrNothing ==
    \A t \in Threads : Ret(t) => \A s \in Tuples(t) : AllNaN(s) \/ Valid(s)

\* A returned SolveIK call in which a reachable case's candidate broke a
\* joint limit and came back as the sentinel, beside a valid entry.
C2_Witness ==
    \E t \in Threads :
        /\ Ret(t) /\ th[t].fn = "SolveIK"
        /\ Reachable(th[t].passed[1].data)
        /\ \E i, j \in 1..4 :
            /\ ~InLimits(Candidate(th[t].passed[1].data, th[t].q, Cases[i]))
            /\ \E k \in 1..7 :
                LessEq(JointMin[k], Candidate(th[t].passed[1].data, th[t].q, Cases[i])[k])
            /\ AllNaN(th[t].result[i])
            /\ Valid(th[t].result[j])

(***************************************************************************)
(* C3.  A SolveIKCC call that returns gives the sentinel or exactly what   *)
(* SolveIK gives, for the same pose and parameter, in the case derived     *)
(* from the reference; it never gives another case's solution.             *)
(***************************************************************************)
CaseIndex(c) == CHOOSE i \in 1..4 : Cases[i] = c

C3_NeverSubstitutes ==
    \A t \in Threads :
        (Ret(t) /\ th[t].fn = "SolveIKCC") =>
            \/ th[t].result = Sentinel
            \/ th[t].result = IKOutputs(th[t].X0, th[t].q, th[t].ref)[CaseIndex(CaseOf(th[t].ref))]

\* A returned SolveIKCC call whose reference is within limits and whose own
\* case has no solution while another case has one: the sentinel came back.
C3_Witness ==
    \E t \in Threads :
        /\ Ret(t) /\ th[t].fn = "SolveIKCC" /\ InLimits(th[t].ref)
        /\ th[t].result = Sentinel
        /\ \E j \in 1..4 : Valid(IKOutputs(th[t].X0, th[t].q, th[t].ref)[j])

C5_RaisesOnlyOnSize ==
    \A t \in Threads :
        Done(t) =>
            /\ th[t].outcome = "raised" <=> ~WellSized(t)
            /\ th[t].outcome = "raised" => ~th[t].coreRan
            /\ th[t].outcome = "returned" => th[t].coreRan

\* A well-sized SolveIK call on an unreachable pose that returned, all four
\* entries the sentinel.
C5_Witness ==
    \E t \in Threads :
        /\ Ret(t) /\ th[t].fn = "SolveIK" /\ WellSized(t)
        /\ ~Reachable(th[t].passed[1].data)
        /\ \A i \in 1..4 : th[t].result[i] = Sentinel

\* A call that raised at the extension's boundary: a reference of six
\* elements with a 4x4 pose.
C5_WitnessRaised ==
    \E t \in Threads :
        /\ Done(t) /\ th[t].outcome = "raised" /\ th[t].err = "RuntimeError"
        /\ th[t].X0.shape = <<4, 4>> /\ Len(th[t].ref) = 6

(***************************************************************************)
(* C6.  When the translation of the pose the solver is given (that of      *)
(* X @ X_EE_offset) is farther from the base than the links extend, or is  *)
(* zero, all four entries SolveIK returns are the sentinel.                *)
(***************************************************************************)
TooFar(X) == Dist2(ExpectedTranslation(X)) > MaxReach * MaxReach
AtOrigin(X) == ExpectedTranslation(X) = <<0, 0, 0>>

C6_WitnessOrigin ==
    \E t \in Threads :
        /\ Ret(t) /\ th[t].fn = "SolveIK" /\ WellSized(t)
        /\ AtOrigin(th[t].X0)

(***************************************************************************)
(* C7 (forward-kinematics round trip within a numerical tolerance) is not  *)
(* stated: the chain's forward kinematics is not part of the package's     *)
(* Python source, and the model has no floating-point trigonometry.        *)
(***************************************************************************)

(***************************************************************************)
(* C8.  Under every interleaving of the threads' calls, and after any      *)
(* earlier calls, the outcome of a finished call is the function of its    *)
(* own pose, parameter and reference; two finished calls with the same     *)
(* arguments have the same outcome.                                        *)
(***************************************************************************)
OutcomeOf(t) == <<th[t].outcome, th[t].err, th[t].result>>
InputsOf(t) == <<th[t].fn, th[t].X0, th[t].q, th[t].ref>>

C8_StatelessUnderInterleaving ==
    /\ \A t \in Threads :
        Done(t) => OutcomeOf(t) = CallOutcome(th[t].fn, th[t].X0, th[t].q, th[t].ref)
    /\ \A t, u \in Threads :
        (Done(t) /\ Done(u) /\ InputsOf(t) = InputsOf(u)) => OutcomeOf(t) = OutcomeOf(u)

\* Two threads past each other's preprocessing with different poses, one of
\* them finished with a valid solution.
C8_Witness ==
    \E t, u \in Threads :
        /\ t # u
        /\ Ret(t) /\ th[t].fn = "SolveIKCC" /\ Valid(th[t].result)
        /\ th[u].pc = "ret" /\ th[u].X0 # th[t].X0

(***************************************************************************)
(* C9.  Both entry points hand the solver the 16 elements of               *)
(* X @ X_EE_offset in column-major order, v[4*c + r] = (X*E)[r][c], with   *)
(* the redundancy parameter and the reference as given, and leave X as it  *)
(* was.                                                                    *)
(***************************************************************************)
C9_PreprocessedPose ==
    \A t \in Threads :
        /\ th[t].X = th[t].X0
        /\ (th[t].passed # <<>> /\ th[t].X0.shape = <<4, 4>>) =>
            /\ th[t].passed[1].shape = <<16>>
            /\ \A r, c \in 0..3 :
                th[t].passed[1].data[4 * c + r + 1] = ExpectedPose(th[t].X0, r, c)
            /\ th[t].passed[2] = th[t].q
            /\ th[t].passed[3] = th[t].ref

\* A SolveIKCC call that has handed the solver a pose whose rotation is not
\* symmetric and whose translation the offset moves along x.
C9_Witness ==
    \E t \in Threads :
        /\ th[t].fn = "SolveIKCC" /\ th[t].passed # <<>>
        /\ th[t].X0.shape = <<4, 4>>
        /\ At(th[t].X0, 0, 2) = 1 /\ At(th[t].X0, 2, 0) = 0 - 1
        /\ At(th[t].X0, 2, 3) # 0
        /\ th[t].passed[1].data[13] = At(th[t].X0, 0, 3) + ToolOffset

(***************************************************************************)
(* C10.  Once the package is imported, every name of __all__ is bound in   *)
(* the package.                                                            *)
(***************************************************************************)
C10_ExportsBound ==
    ipc = "done" => \A i \in 1..Len(ExportList) : ExportList[i] \in ns

====
